---- MODULE Spec2Model ----
(***************************************************************************)
(* btclib ssa.py: Elliptic Curve Schnorr Signature Algorithm (bip-schnorr). *)
(* sign, verify, _pubkey_recovery and batch_verify are modelled on small    *)
(* Weierstrass curves y^2 = x^3 + a x + b over GF(p) with a prime number n  *)
(* of points, so that every group element can be enumerated.                *)
(*                                                                          *)
(* Widths.  TLC's integers are 32 bits wide, so the one absolute width of   *)
(* ssa.py, the literal 2**256-1 of _check_sig, is scaled down with the      *)
(* curves: a field element of the model is 4 bits wide where secp256k1's    *)
(* is 256 bits wide, and RBound = 2^4 - 1 stands for 2**256 - 1.  ec11_7   *)
(* has p < RBound as secp256k1 has p < 2**256-1; ec19_13 has p > RBound as  *)
(* a 384-bit curve (secp384r1, p = 3 mod 4) has.                            *)
(***************************************************************************)
EXTENDS Integers, Sequences, FiniteSets, TLC

\* ec, hf: the curve and hash function the caller passes to every call
\* ms, Ps, sigs: the caller's messages, public keys and signatures
\* prov: where the triple at each index comes from
\* ret: the last call, with what it returned or raised
VARIABLES ec, hf, ms, Ps, sigs, prov, ret

vars == <<ec, hf, ms, Ps, sigs, prov, ret>>

(***************************************************************************)
(* Python call results: a value returned or an exception raised.           *)
(***************************************************************************)
Ret(v) == [ok |-> TRUE, val |-> v]

Raise(kind) == [ok |-> FALSE, err |-> kind]

(***************************************************************************)
(* Curves (btclib.curve.Curve instances) and hash functions (HashF).       *)
(***************************************************************************)
ec11_7 == [p |-> 11, a |-> 6, b |-> 6, G |-> <<2, 2>>, n |-> 7, nlen |-> 3, psize |-> 1]

ec19_13 == [p |-> 19, a |-> 0, b |-> 2, G |-> <<4, 3>>, n |-> 13, nlen |-> 4, psize |-> 1]

ec13_7 == [p |-> 13, a |-> 0, b |-> 6, G |-> <<2, 1>>, n |-> 7, nlen |-> 3, psize |-> 1]

Curves == {ec11_7, ec19_13, ec13_7}

hfA == [seed |-> 5, mult |-> 31, digest_size |-> 2]

hfB == [seed |-> 17, mult |-> 29, digest_size |-> 1]

Hashes == {hfA, hfB}

pIsThreeModFour(c) == c.p % 4 = 3

GJ(c) == <<c.G[1], c.G[2], 1>>

INF == <<7, 0>>

INFJ == <<7, 0, 0>>

(***************************************************************************)
(* numbertheory: modular power, inverse, Legendre symbol, square root.     *)
(***************************************************************************)
RECURSIVE ModPow(_, _, _)
ModPow(x, k, m) ==
    IF k = 0 THEN 1 % m
    ELSE LET h == ModPow(x, k \div 2, m)
             h2 == (h * h) % m
         IN IF k % 2 = 1 THEN (h2 * (x % m)) % m ELSE h2

\* mod_inv(a, m): raises when a is not invertible mod m
mod_inv_exists(x, m) == \E i \in 1..(m - 1) : (x * i) % m = 1

mod_inv(x, m) == CHOOSE i \in 1..(m - 1) : (x * i) % m = 1

\* legendre_symbol(a, p) = a^((p-1)/2) mod p: 1, 0 or p-1
legendre_symbol(x, p) == ModPow(x, (p - 1) \div 2, p)

\* mod_sqrt(a, p) for p = 3 (mod 4): a^((p+1)/4); raises when a is no square
mod_sqrt(x, p) ==
    IF legendre_symbol(x, p) # 1 /\ x % p # 0
    THEN Raise("NoQuadraticResidue")
    ELSE Ret(ModPow(x, (p + 1) \div 4, p))

(***************************************************************************)
(* curve.Curve: curve equation, membership, y from x, Jacobian addition.   *)
(***************************************************************************)
_y2(c, x) == ((x * x + c.a) * x + c.b) % c.p

\* is_on_curve: infinity is on the curve; y must lie in (0, p)
require_on_curve(c, Q) ==
    IF Len(Q) # 2 THEN Raise("Point")
    ELSE IF Q[2] = 0 THEN Ret(TRUE)
    ELSE IF ~(0 < Q[2] /\ Q[2] < c.p) THEN Raise("Point")
    ELSE IF _y2(c, Q[1]) # (Q[2] * Q[2]) % c.p THEN Raise("Point")
    ELSE Ret(TRUE)

\* Curve.y(x): a field element x is required; the root is mod_sqrt's
y(c, x) ==
    IF ~(0 <= x /\ x < c.p) THEN Raise("NoQuadraticResidue")
    ELSE mod_sqrt(_y2(c, x), c.p)

\* Curve.y_quadratic_residue(x, True): the root that is a quadratic residue
y_quadratic_residue(c, x) ==
    IF ~pIsThreeModFour(c) THEN Raise("CurveConstraint")
    ELSE LET root == y(c, x)
         IN IF ~root.ok THEN root
            ELSE IF legendre_symbol(root.val, c.p) = 1 THEN root
            ELSE Ret(c.p - root.val)

_jac_from_aff(Q) == IF Q[2] = 0 THEN INFJ ELSE <<Q[1], Q[2], 1>>

_aff_from_jac(c, Q) ==
    IF Q[3] = 0 THEN INF
    ELSE LET Z2 == (Q[3] * Q[3]) % c.p
             Z3 == (Z2 * Q[3]) % c.p
         IN <<(Q[1] * mod_inv(Z2, c.p)) % c.p, (Q[2] * mod_inv(Z3, c.p)) % c.p>>

_add_jac(c, Q, R) ==
    IF Q[3] = 0 THEN R
    ELSE IF R[3] = 0 THEN Q
    ELSE LET p == c.p
             RZ2 == (R[3] * R[3]) % p
             RZ3 == (RZ2 * R[3]) % p
             QZ2 == (Q[3] * Q[3]) % p
             QZ3 == (QZ2 * Q[3]) % p
             M == (Q[1] * RZ2) % p
             N == (R[1] * QZ2) % p
             T == (Q[2] * RZ3) % p
             U == (R[2] * QZ3) % p
         IN IF M = N
            THEN IF T = U
                 THEN \* point doubling
                      LET QY2 == (Q[2] * Q[2]) % p
                          W == (3 * Q[1] * Q[1] + c.a * QZ2 * QZ2) % p
                          V == (4 * Q[1] * QY2) % p
                          X == (W * W - 2 * V) % p
                          Y == (W * (V - X) - 8 * QY2 * QY2) % p
                          Z == (2 * Q[2] * Q[3]) % p
                      IN IF Z = 0 THEN INFJ ELSE <<X, Y, Z>>
                 ELSE \* opposite points
                      INFJ
            ELSE LET W == (U - T) % p
                     V == (N - M) % p
                     V2 == (V * V) % p
                     V3 == (V2 * V) % p
                     MV2 == (M * V2) % p
                     X == (W * W - V3 - 2 * MV2) % p
                     Y == (W * (MV2 - X) - T * V3) % p
                     Z == (V * Q[3] * R[3]) % p
                 IN <<X, Y, Z>>

(***************************************************************************)
(* curvemult: double & add scalar multiplication, double and multi mult.   *)
(***************************************************************************)
RECURSIVE _mult_jac_loop(_, _, _, _)
_mult_jac_loop(c, m, Q, R) ==
    IF m = 0 THEN R
    ELSE _mult_jac_loop(c, m \div 2, _add_jac(c, Q, Q),
                        IF m % 2 = 1 THEN _add_jac(c, R, Q) ELSE R)

\* _mult_jac(m, Q, ec), m >= 0 not necessarily reduced mod n
_mult_jac(c, m, Q) == _mult_jac_loop(c, m, Q, INFJ)

\* _double_mult(u, HJ, v, QJ, ec) = u*H + v*Q, coefficients taken mod n
_double_mult(c, u, HJ, v, QJ) ==
    _add_jac(c, _mult_jac(c, u % c.n, HJ), _mult_jac(c, v % c.n, QJ))

RECURSIVE _multi_mult_from(_, _, _, _)
_multi_mult_from(c, scalars, points, i) ==
    IF i > Len(scalars) THEN INFJ
    ELSE _add_jac(c, _mult_jac(c, scalars[i], points[i]),
                  _multi_mult_from(c, scalars, points, i + 1))

\* _multi_mult(scalars, points, ec) = sum of scalars[i]*points[i]
_multi_mult(c, scalars, points) == _multi_mult_from(c, scalars, points, 1)

\* mult(m, Q, ec) and double_mult(u, H, v, Q, ec): the affine forms
mult(c, m, Q) == _aff_from_jac(c, _mult_jac(c, m % c.n, _jac_from_aff(Q)))

double_mult(c, u, H, v, Q) ==
    _aff_from_jac(c, _double_mult(c, u, _jac_from_aff(H), v, _jac_from_aff(Q)))

(***************************************************************************)
(* utils and hashlib: octet strings, the hash function, int_from_bits.     *)
(***************************************************************************)
RECURSIVE Pow(_, _)
Pow(x, k) == IF k = 0 THEN 1 ELSE x * Pow(x, k - 1)

RECURSIVE BigEndian(_, _)
BigEndian(i, size) ==
    IF size = 0 THEN <<>> ELSE Append(BigEndian(i \div 256, size - 1), i % 256)

RECURSIVE IntFromBytes(_)
IntFromBytes(o) ==
    IF Len(o) = 0 THEN 0
    ELSE 256 * IntFromBytes(SubSeq(o, 1, Len(o) - 1)) + o[Len(o)]

\* octets_from_int(i, size): int.to_bytes raises OverflowError when i does not fit
octets_from_int(i, size) ==
    IF i < 0 \/ i >= Pow(256, size) THEN Raise("Overflow")
    ELSE Ret(BigEndian(i, size))

\* octets_from_point(P, True, ec): SEC 1 compressed form; none for infinity
octets_from_point(c, Q) ==
    IF ~require_on_curve(c, Q).ok THEN Raise("Point")
    ELSE IF Q[2] = 0 THEN Raise("Point")
    ELSE LET bPx == octets_from_int(Q[1], c.psize)
         IN IF ~bPx.ok THEN bPx
            ELSE Ret(<<IF Q[2] % 2 = 1 THEN 3 ELSE 2>> \o bPx.val)

\* hf().update(data): the state of the hash after absorbing data
RECURSIVE Absorb(_, _, _)
Absorb(h, state, data) ==
    IF Len(data) = 0 THEN state
    ELSE Absorb(h, (state * h.mult + Head(data) + 1) % 251, Tail(data))

\* hf().digest(): digest_size octets
Digest(h, data) ==
    LET st == Absorb(h, h.seed, data)
    IN [j \in 1..h.digest_size |-> IF j = 1 THEN st ELSE (st * h.mult + j) % 256]

\* int_from_bits(o, ec): the leftmost nlen bits of o, reduced mod n
int_from_bits(c, o) ==
    LET i == IntFromBytes(o)
        hlen == 8 * Len(o)
        lead == IF hlen > c.nlen THEN i \div Pow(2, hlen - c.nlen) ELSE i
    IN lead % c.n

\* rfc6979(mhd, d, ec, hf): a nonce in [1, n-1] fixed by (mhd, d)
rfc6979(c, h, mhd, d) ==
    1 + (IntFromBytes(Digest(h, mhd \o <<d % 256>>)) % (c.n - 1))

(***************************************************************************)
(* ssa.py                                                                  *)
(***************************************************************************)
\* 2**256 - 1 in _check_sig, at the model's scale (see the head of the module)
RBound == 15

\* a size check that lets every length through
_ensure_msg_size_any(h, msg) == Ret(TRUE)

_ensure_msg_size(h, msg) ==
    IF Len(msg) # h.digest_size THEN Raise("MessageSize") ELSE Ret(TRUE)

\* a challenge hashed over the key's x coordinate, without encoding the point
_e_x_only(c, h, r, P, mhd) ==
    LET br == octets_from_int(r, c.psize)
        bP == octets_from_int(P[1], c.psize)
    IN IF ~br.ok THEN br
       ELSE IF ~bP.ok THEN bP
       ELSE Ret(int_from_bits(c, Digest(h, br.val \o <<2>> \o bP.val \o mhd)))

_e(c, h, r, P, mhd) ==
    LET br == octets_from_int(r, c.psize)
        bP == octets_from_point(c, P)
    IN IF ~br.ok THEN br
       ELSE IF ~bP.ok THEN bP
       ELSE Ret(int_from_bits(c, Digest(h, br.val \o bP.val \o mhd)))

\* sign(mhd, d, k, ec, hf); k = <<>> is None, k = <<i>> the supplied nonce i
sign(c, h, mhd, d, k) ==
    IF ~pIsThreeModFour(c) THEN Raise("CurveConstraint")
    ELSE IF ~_ensure_msg_size(h, mhd).ok THEN _ensure_msg_size(h, mhd)
    ELSE IF ~(0 < d /\ d < c.n) THEN Raise("KeyRange")
    ELSE LET P == mult(c, d, c.G)
             k1 == IF k = <<>> THEN rfc6979(c, h, mhd, d) ELSE k[1]
         IN IF ~(0 < k1 /\ k1 < c.n) THEN Raise("KeyRange")
            ELSE LET RJ == _mult_jac(c, k1, GJ(c))
                     k2 == IF legendre_symbol((RJ[2] * RJ[3]) % c.p, c.p) # 1
                           THEN c.n - k1 ELSE k1
                     Z2 == RJ[3] * RJ[3]
                     r == (RJ[1] * mod_inv(Z2, c.p)) % c.p
                     e == _e(c, h, r, P, mhd)
                 IN IF ~e.ok THEN e
                    ELSE Ret(<<r, (k2 + e.val * d) % c.n>>)

\* a signature check without the upper bound on s
_check_sig_no_s_bound(c, sig) ==
    IF Len(sig) # 2 THEN Raise("SignatureFormat")
    ELSE IF ~(0 <= sig[1] /\ sig[1] < RBound) THEN Raise("SignatureFormat")
    ELSE IF ~(0 <= sig[2]) THEN Raise("SignatureFormat")
    ELSE Ret(TRUE)

_check_sig(c, sig) ==
    IF Len(sig) # 2 THEN Raise("SignatureFormat")
    ELSE IF ~(0 <= sig[1] /\ sig[1] < RBound) THEN Raise("SignatureFormat")
    ELSE IF ~(0 <= sig[2] /\ sig[2] < c.n) THEN Raise("SignatureFormat")
    ELSE Ret(TRUE)

_verify(c, h, mhd, P, sig) ==
    IF ~pIsThreeModFour(c) THEN Raise("CurveConstraint")
    ELSE IF ~_check_sig(c, sig).ok THEN _check_sig(c, sig)
    ELSE IF ~_ensure_msg_size(h, mhd).ok THEN _ensure_msg_size(h, mhd)
    ELSE IF ~require_on_curve(c, P).ok THEN require_on_curve(c, P)
    ELSE IF P[2] = 0 THEN Raise("Point")
    ELSE LET e == _e(c, h, sig[1], P, mhd)
         IN IF ~e.ok THEN e
            ELSE LET R == _double_mult(c, -e.val, <<P[1], P[2], 1>>, sig[2], GJ(c))
                 IN IF R[3] = 0 THEN Raise("Infinity")
                    ELSE IF legendre_symbol((R[2] * R[3]) % c.p, c.p) # 1
                         THEN Raise("NoQuadraticResidue")
                    ELSE Ret(R[1] = (R[3] * R[3] * sig[1]) % c.p)

\* try: return <call> except Exception: return False
except_False(v) == IF v.ok THEN v.val ELSE FALSE

\* verify: the try/except wrapper of _verify
verify(c, h, mhd, P, sig) == except_False(_verify(c, h, mhd, P, sig))

_pubkey_recovery(c, h, e, sig) ==
    IF ~_check_sig(c, sig).ok THEN _check_sig(c, sig)
    ELSE LET yK == y_quadratic_residue(c, sig[1])
         IN IF ~yK.ok THEN yK
            ELSE IF e = 0 THEN Raise("ZeroChallenge")
            ELSE IF ~mod_inv_exists(e, c.n) THEN Raise("NotInvertible")
            ELSE LET K == <<sig[1], yK.val>>
                     e1 == mod_inv(e, c.n)
                     P == double_mult(c, -e1, K, e1 * sig[2], c.G)
                 IN IF P[2] = 0 THEN Raise("Assertion") ELSE Ret(P)

\* One pass of the loop of _batch_verify over index i (1-based); rand[i-1] is
\* what random.getrandbits(ec.nlen) returns for that index.  acc carries t,
\* scalars, points, the coefficients a drawn so far, and the error raised.
RECURSIVE _batch_loop(_, _, _, _, _, _, _, _)
_batch_loop(c, h, m, P, sig, rand, i, acc) ==
    IF i > Len(P) THEN acc
    ELSE LET seen == [acc EXCEPT !.seen = i]
             sg == sig[i]
         IN IF ~_check_sig(c, sg).ok THEN [seen EXCEPT !.err = _check_sig(c, sg).err]
            ELSE IF ~_ensure_msg_size(h, m[i]).ok THEN [seen EXCEPT !.err = "MessageSize"]
            ELSE IF ~require_on_curve(c, P[i]).ok THEN [seen EXCEPT !.err = "Point"]
            ELSE LET e == _e(c, h, sg[1], P[i], m[i])
                     yr == y(c, sg[1])
                 IN IF ~e.ok THEN [seen EXCEPT !.err = e.err]
                    ELSE IF ~yr.ok THEN [seen EXCEPT !.err = yr.err]
                    ELSE LET a == IF i = 1 THEN 1 ELSE (1 + rand[i - 1]) % c.n
                         IN _batch_loop(c, h, m, P, sig, rand, i + 1,
                                [seen EXCEPT
                                   !.t = acc.t + a * sg[2],
                                   !.scalars = acc.scalars \o <<a, (a * e.val) % c.n>>,
                                   !.points = acc.points
                                       \o <<_jac_from_aff(<<sg[1], yr.val>>), _jac_from_aff(P[i])>>,
                                   !.coeffs = Append(acc.coeffs, a)])

_batch_start == [t |-> 0, scalars |-> <<>>, points |-> <<>>, coeffs |-> <<>>, seen |-> 0, err |-> ""]

\* T == RHS, checked in Jacobian coordinates
_batch_equal(c, TJ, RHSJ) ==
    LET RHSZ2 == RHSJ[3] * RHSJ[3]
        TZ2 == TJ[3] * TJ[3]
    IN IF (TJ[1] * RHSZ2) % c.p # (RHSJ[1] * TZ2) % c.p THEN FALSE
       ELSE (TJ[2] * RHSZ2 * RHSJ[3]) % c.p = (RHSJ[2] * TZ2 * TJ[3]) % c.p

\* a batch run that delegates a single public key before comparing the lengths
_batch_run_delegate_first(c, h, m, P, sig, rand) ==
    LET batch_size == Len(P)
        none == [coeffs |-> <<>>, seen |-> 0]
    IN IF ~pIsThreeModFour(c)
       THEN [out |-> Raise("CurveConstraint")] @@ none
       ELSE IF batch_size = 1 /\ Len(m) >= 1 /\ Len(sig) >= 1
            THEN [out |-> _verify(c, h, m[1], P[1], sig[1]), coeffs |-> <<>>, seen |-> 1]
       ELSE IF Len(m) # batch_size THEN [out |-> Raise("SizeMismatch")] @@ none
       ELSE IF Len(sig) # batch_size THEN [out |-> Raise("SizeMismatch")] @@ none
       ELSE LET acc == _batch_loop(c, h, m, P, sig, rand, 1, _batch_start)
            IN IF acc.err # ""
               THEN [out |-> Raise(acc.err), coeffs |-> acc.coeffs, seen |-> acc.seen]
               ELSE LET TJ == _mult_jac(c, acc.t, GJ(c))
                        RHSJ == _multi_mult(c, acc.scalars, acc.points)
                    IN [out |-> Ret(_batch_equal(c, TJ, RHSJ)),
                        coeffs |-> acc.coeffs, seen |-> acc.seen]

\* _batch_verify with what it did: out (returned or raised), the coefficients
\* it drew, and seen, the number of triples it examined
_batch_run(c, h, m, P, sig, rand) ==
    LET batch_size == Len(P)
        none == [coeffs |-> <<>>, seen |-> 0]
    IN IF ~pIsThreeModFour(c)
       THEN [out |-> Raise("CurveConstraint")] @@ none
       ELSE IF Len(m) # batch_size THEN [out |-> Raise("SizeMismatch")] @@ none
       ELSE IF Len(sig) # batch_size THEN [out |-> Raise("SizeMismatch")] @@ none
       ELSE IF batch_size = 1
            THEN [out |-> _verify(c, h, m[1], P[1], sig[1]), coeffs |-> <<>>, seen |-> 1]
       ELSE LET acc == _batch_loop(c, h, m, P, sig, rand, 1, _batch_start)
            IN IF acc.err # ""
               THEN [out |-> Raise(acc.err), coeffs |-> acc.coeffs, seen |-> acc.seen]
               ELSE LET TJ == _mult_jac(c, acc.t, GJ(c))
                        RHSJ == _multi_mult(c, acc.scalars, acc.points)
                    IN [out |-> Ret(_batch_equal(c, TJ, RHSJ)),
                        coeffs |-> acc.coeffs, seen |-> acc.seen]

_batch_verify(c, h, m, P, sig, rand) == _batch_run(c, h, m, P, sig, rand).out

\* a wrapper that answers True when _batch_verify raises
batch_verify_except_true(c, h, m, P, sig, rand) ==
    LET v == _batch_verify(c, h, m, P, sig, rand) IN IF v.ok THEN v.val ELSE TRUE

\* batch_verify: the try/except wrapper of _batch_verify
batch_verify(c, h, m, P, sig, rand) == except_False(_batch_verify(c, h, m, P, sig, rand))

(***************************************************************************)
(* Inputs of the calls.                                                    *)
(***************************************************************************)
MaxBatch == 2

Msgs == {<<0>>, <<1>>, <<0, 1>>, <<1, 1>>}

Points(c) == {Q \in (0..(c.p - 1)) \X (1..(c.p - 1)) : require_on_curve(c, Q).ok}

\* public keys a caller may pass: every point, infinity, one point off the curve
OffCurve(c) == CHOOSE Q \in (0..(c.p - 1)) \X (1..(c.p - 1)) : ~require_on_curve(c, Q).ok

AnyKeys(c) == Points(c) \cup {INF, OffCurve(c)}

\* signatures a caller may pass: r up to and past RBound, s up to and past n,
\* and tuples that do not have two components
AnySigs(c) ==
    ((0..(RBound + 1)) \X (0..(c.n + 1))) \cup {<<1>>, <<1, 1, 1>>}

Nonces(c) == {<<>>} \cup {<<i>> : i \in 0..c.n}

lists == <<ms, Ps, sigs, prov>>

Init ==
    /\ ec \in Curves
    /\ hf \in Hashes
    /\ ms = <<>> /\ Ps = <<>> /\ sigs = <<>> /\ prov = <<>>
    /\ ret = [op |-> "none"]

(***************************************************************************)
(* Calls on one triple.                                                    *)
(***************************************************************************)
\* sign(mhd, d, k, ec, hf); the caller keeps (mhd, d*G, sig) when it returns
Sign ==
    /\ ret.op = "none"
    /\ \E mhd \in Msgs, d \in 0..ec.n, k \in Nonces(ec) :
         LET out == sign(ec, hf, mhd, d, k)
         IN /\ ret' = [op |-> "sign", mhd |-> mhd, d |-> d, k |-> k, out |-> out]
            /\ IF out.ok
               THEN /\ ms' = <<mhd>>
                    /\ Ps' = <<mult(ec, d, ec.G)>>
                    /\ sigs' = <<out.val>>
                    /\ prov' = <<"signed">>
               ELSE UNCHANGED lists
    /\ UNCHANGED <<ec, hf>>

\* the caller is handed a triple from elsewhere
Supply ==
    /\ ret.op = "none"
    /\ \E mhd \in Msgs, P \in AnyKeys(ec), sig \in AnySigs(ec) :
         /\ ms' = <<mhd>> /\ Ps' = <<P>> /\ sigs' = <<sig>> /\ prov' = <<"given">>
    /\ ret' = [op |-> "supply"]
    /\ UNCHANGED <<ec, hf>>

\* verify(ms[0], Ps[0], sigs[0], ec, hf)
Verify ==
    /\ ret.op \in {"sign", "supply", "tamper"}
    /\ Len(ms) = 1
    /\ ret' = [op |-> "verify", out |-> verify(ec, hf, ms[1], Ps[1], sigs[1])]
    /\ UNCHANGED <<ec, hf, lists>>

\* s of a triple that verify accepted is replaced by another value
TamperS ==
    /\ ret.op = "verify"
    /\ ret.out = TRUE
    /\ prov[1] # "tampered"
    /\ \E s \in 0..(ec.n + 1) :
         /\ s # sigs[1][2]
         /\ sigs' = <<<<sigs[1][1], s>>>>
    /\ prov' = <<"tampered">>
    /\ ret' = [op |-> "tamper"]
    /\ UNCHANGED <<ec, hf, ms, Ps>>

\* batch_verify([m], [P], [sig], ec, hf)
BatchVerifyOne ==
    /\ ret.op \in {"sign", "supply"}
    /\ Len(ms) = 1
    /\ ret' = [op |-> "batch", out |-> batch_verify(ec, hf, ms, Ps, sigs, <<>>)]
    /\ UNCHANGED <<ec, hf, lists>>

\* _pubkey_recovery(e, sig, ec, hf) with e recomputed from (r, P, m)
Recover ==
    /\ ret.op \in {"sign", "supply"}
    /\ Len(ms) = 1
    /\ Len(sigs[1]) = 2
    /\ LET e == _e(ec, hf, sigs[1][1], Ps[1], ms[1])
       IN /\ e.ok
          /\ ret' = [op |-> "recover", e |-> e.val,
                     out |-> _pubkey_recovery(ec, hf, e.val, sigs[1])]
    /\ UNCHANGED <<ec, hf, lists>>

Next ==
    \/ Sign
    \/ Supply
    \/ Verify
    \/ TamperS
    \/ BatchVerifyOne
    \/ Recover

Spec == Init /\ [][Next]_vars

(***************************************************************************)
(* Calls on a batch.                                                       *)
(***************************************************************************)
BatchCurves == {ec11_7, ec13_7}

BatchMsgs == {<<0>>, <<0, 1>>}

BatchKeys(c) == {mult(c, 2, c.G)}

\* every triple over the batch inputs that verify accepts
VerifiedPool ==
    [c \in BatchCurves, h \in Hashes |->
        {t \in BatchMsgs \X BatchKeys(c) \X ((0..(RBound - 1)) \X (0..(c.n - 1))) :
            verify(c, h, t[1], t[2], t[3])}]

\* a signature (x(s*G), s) with y(s*G) a quadratic residue: it satisfies
\* s*G = R + e*P when e*P contributes nothing
ForgedSig(c) ==
    LET s == CHOOSE i \in 1..(c.n - 1) : legendre_symbol(mult(c, i, c.G)[2], c.p) = 1
    IN <<mult(c, s, c.G)[1], s>>

\* triples nobody verified: an infinite key or a key off the curve, under a
\* message of either size, with a signature made for the infinite key
RawPool(c) == BatchMsgs \X {INF, OffCurve(c)} \X {ForgedSig(c)}

\* what CorruptS adds to s, mod n
Deltas(c) == {1, c.n - 1}

EqualLengths == Len(ms) = Len(Ps) /\ Len(sigs) = Len(Ps)

InitBatch ==
    /\ ec \in BatchCurves
    /\ hf \in Hashes
    /\ ms = <<>> /\ Ps = <<>> /\ sigs = <<>> /\ prov = <<>>
    /\ ret = [op |-> "none"]

\* the caller appends a triple that verify accepted
Admit ==
    /\ ret.op \in {"none", "append"}
    /\ Len(Ps) < MaxBatch
    /\ \E t \in VerifiedPool[ec, hf] :
         /\ ms' = Append(ms, t[1])
         /\ Ps' = Append(Ps, t[2])
         /\ sigs' = Append(sigs, t[3])
    /\ prov' = Append(prov, "verified")
    /\ ret' = [op |-> "append"]
    /\ UNCHANGED <<ec, hf>>

\* the caller appends a triple as received
Enter ==
    /\ ret.op \in {"none", "append"}
    /\ Len(Ps) < MaxBatch
    /\ \E t \in RawPool(ec) :
         /\ ms' = Append(ms, t[1])
         /\ Ps' = Append(Ps, t[2])
         /\ sigs' = Append(sigs, t[3])
    /\ prov' = Append(prov, "raw")
    /\ ret' = [op |-> "append"]
    /\ UNCHANGED <<ec, hf>>

\* s of one verified triple of a full batch of verified triples is replaced
\* by a different value in [0, n)
CorruptS ==
    /\ ret.op = "append"
    /\ Len(Ps) = MaxBatch
    /\ \A j \in 1..Len(prov) : prov[j] = "verified"
    /\ \E i \in 1..Len(sigs), delta \in Deltas(ec) :
         /\ sigs' = [sigs EXCEPT ![i] = <<sigs[i][1], (sigs[i][2] + delta) % ec.n>>]
         /\ prov' = [prov EXCEPT ![i] = "corrupted"]
    /\ ret' = [op |-> "corrupt"]
    /\ UNCHANGED <<ec, hf, ms, Ps>>

\* the caller loses the last element of one of the three sequences
Drop ==
    /\ ret.op = "append"
    /\ \/ Len(ms) > 0 /\ ms' = SubSeq(ms, 1, Len(ms) - 1) /\ UNCHANGED <<Ps, sigs>>
       \/ Len(Ps) > 0 /\ Ps' = SubSeq(Ps, 1, Len(Ps) - 1) /\ UNCHANGED <<ms, sigs>>
       \/ Len(sigs) > 0 /\ sigs' = SubSeq(sigs, 1, Len(sigs) - 1) /\ UNCHANGED <<ms, Ps>>
    /\ ret' = [op |-> "drop"]
    /\ UNCHANGED <<ec, hf, prov>>

\* batch_verify(ms, Ps, sigs, ec, hf), that is except_False(_batch_verify(...));
\* rand is what random.getrandbits returns at each index i > 0 the loop reaches
BatchVerify ==
    /\ ret.op \in {"append", "corrupt", "drop"}
    /\ Len(Ps) + Len(ms) + Len(sigs) > 0
    /\ \E rand \in [1..(IF EqualLengths /\ Len(Ps) > 1 THEN Len(Ps) - 1 ELSE 0)
                      -> 0..(Pow(2, ec.nlen) - 1)] :
         LET run == _batch_run(ec, hf, ms, Ps, sigs, rand)
         IN ret' = [op |-> "batch",
                    out |-> except_False(run.out),
                    raw |-> run.out, coeffs |-> run.coeffs, seen |-> run.seen]
    /\ UNCHANGED <<ec, hf, lists>>

NextBatch ==
    \/ Admit
    \/ Enter
    \/ CorruptS
    \/ Drop
    \/ BatchVerify

SpecBatch == InitBatch /\ [][NextBatch]_vars

(***************************************************************************)
(* Claims about one triple, checked under Spec.                            *)
(***************************************************************************)
\* C1: on a curve with p = 3 (mod 4), verify accepts (m, d*G, sign(m, d, k))
\* for every d and k in [1, n-1] (k supplied or derived) and every m of the
\* digest size.
C1_RoundTrip ==
    (ret.op = "verify" /\ prov[1] = "signed") => ret.out = TRUE

\* the affine point s*G - e*P of a well-formed triple
SGminusEP(c, h, mhd, P, sig) ==
    double_mult(c, -(_e(c, h, sig[1], P, mhd).val), P, sig[2], c.G)

\* some step of the detailed check fails on (mhd, P, sig)
StepFails(c, h, mhd, P, sig) ==
    \/ ~pIsThreeModFour(c)
    \/ Len(sig) # 2
    \/ ~(0 <= sig[1] /\ sig[1] < RBound)
    \/ ~(0 <= sig[2] /\ sig[2] < c.n)
    \/ Len(mhd) # h.digest_size
    \/ ~require_on_curve(c, P).ok
    \/ P[2] = 0
    \/ SGminusEP(c, h, mhd, P, sig)[2] = 0
    \/ legendre_symbol(SGminusEP(c, h, mhd, P, sig)[2], c.p) # 1

\* C4: verify returns a boolean, False whenever a step of the detailed check
\* fails, and True only when every step passes and x(s*G - e*P) = r.
C4_VerifyTotal ==
    ret.op = "verify" =>
        /\ ret.out \in BOOLEAN
        /\ StepFails(ec, hf, ms[1], Ps[1], sigs[1]) => ret.out = FALSE
        /\ ret.out = TRUE =>
             /\ ~StepFails(ec, hf, ms[1], Ps[1], sigs[1])
             /\ SGminusEP(ec, hf, ms[1], Ps[1], sigs[1])[1] = sigs[1][1]

\* C5: sign raises, and the caller gets no signature, when the curve prime is
\* not 3 (mod 4), the message is not of the digest size, d is outside
\* [1, n-1] or a supplied k is outside [1, n-1]; a pair it returns has
\* 0 <= r < p and 0 <= s < n.
C5_SignFailsOrInRange ==
    ret.op = "sign" =>
        /\ (\/ ~pIsThreeModFour(ec)
            \/ Len(ret.mhd) # hf.digest_size
            \/ ~(1 <= ret.d /\ ret.d <= ec.n - 1)
            \/ (ret.k # <<>> /\ ~(1 <= ret.k[1] /\ ret.k[1] <= ec.n - 1)))
           => (~ret.out.ok /\ sigs = <<>>)
        /\ ret.out.ok =>
             /\ Len(ret.out.val) = 2
             /\ 0 <= ret.out.val[1] /\ ret.out.val[1] < ec.p
             /\ 0 <= ret.out.val[2] /\ ret.out.val[2] < ec.n

C5_Witness ==
    /\ ret.op = "sign"
    /\ ~ret.out.ok
    /\ pIsThreeModFour(ec)
    /\ Len(ret.mhd) = hf.digest_size
    /\ 1 <= ret.d /\ ret.d <= ec.n - 1
    /\ ret.k = <<ec.n>>

\* C6: once verify has accepted (m, P, (r, s)), it rejects (m, P, (r, s'))
\* for every s' # s, below n or not.
C6_TamperS ==
    (ret.op = "verify" /\ prov[1] = "tampered") => ret.out = FALSE

C6_Witness ==
    /\ ret.op = "verify"
    /\ prov[1] = "tampered"
    /\ sigs[1][2] < ec.n
    /\ ret.out = FALSE

\* C8: batch_verify([m], [P], [sig]) returns what verify(m, P, sig) returns,
\* for every triple, well-formed or not, on every curve.
C8_BatchSingle ==
    ret.op = "batch" => ret.out = verify(ec, hf, ms[1], Ps[1], sigs[1])

C8_Witness ==
    /\ ret.op = "batch"
    /\ prov[1] = "given"
    /\ ret.out = TRUE

\* C9: with (r, s) = sign(m, d, k) and e recomputed from (r, d*G, m),
\* _pubkey_recovery(e, (r, s)) returns d*G; it raises the zero-challenge
\* error when e = 0, and raises when no curve point has x = r.
C9_Recovery ==
    ret.op = "recover" =>
        /\ (prov[1] = "signed" /\ ret.e # 0) => (ret.out.ok /\ ret.out.val = Ps[1])
        /\ (prov[1] = "signed" /\ ret.e = 0) =>
              (~ret.out.ok /\ ret.out.err = "ZeroChallenge")
        /\ ret.e = 0 => ~ret.out.ok
        /\ ~mod_sqrt(_y2(ec, sigs[1][1]), ec.p).ok => ~ret.out.ok

(***************************************************************************)
(* Claims about batches, checked under SpecBatch.                          *)
(***************************************************************************)
\* C2: a batch of N >= 2 triples, all accepted by single verification except
\* exactly one whose s was corrupted, is rejected by batch_verify for every
\* value the coefficient generator can produce.
C2_OneBadS ==
    (/\ ret.op = "batch"
     /\ EqualLengths
     /\ Len(Ps) >= 2
     /\ \E i \in 1..Len(Ps) :
           /\ prov[i] = "corrupted"
           /\ \A j \in 1..Len(Ps) : j # i => prov[j] = "verified")
    => ret.out = FALSE

\* C3: a batch of N >= 2 triples, each accepted by single verification, is
\* accepted by batch_verify for every coefficient draw.
C3_Complete ==
    (/\ ret.op = "batch"
     /\ EqualLengths
     /\ Len(Ps) >= 2
     /\ \A i \in 1..Len(Ps) : prov[i] = "verified")
    => ret.out = TRUE

\* C7: when the three sequences differ in length, _batch_verify raises the
\* size-mismatch error (the curve-constraint error on a curve it refuses) and
\* batch_verify returns False, before any triple is examined, also when the
\* common prefix is valid and when there is a single public key.
C7_SizeMismatch ==
    (ret.op = "batch" /\ ~EqualLengths) =>
        /\ ~ret.raw.ok
        /\ ret.raw.err = (IF pIsThreeModFour(ec) THEN "SizeMismatch" ELSE "CurveConstraint")
        /\ ret.out = FALSE
        /\ ret.seen = 0
        /\ ret.coeffs = <<>>

C7_Witness ==
    /\ ret.op = "batch"
    /\ Len(Ps) = 1
    /\ Len(ms) = 2
    /\ Len(sigs) = 2
    /\ verify(ec, hf, ms[1], Ps[1], sigs[1])
    /\ ret.raw = Raise("SizeMismatch")
    /\ ret.out = FALSE

\* C10: the coefficient of the first triple is 1 and the coefficient of every
\* later triple lies in [1, n-1], never 0.
C10_CoeffRange ==
    (ret.op = "batch" /\ Len(ret.coeffs) > 0) =>
        /\ ret.coeffs[1] = 1
        /\ \A i \in 2..Len(ret.coeffs) :
              1 <= ret.coeffs[i] /\ ret.coeffs[i] <= ec.n - 1

\* a public key single verification refuses: infinite, or off the curve
BadKey(c, Q) == Q[2] = 0 \/ ~require_on_curve(c, Q).ok

====
